---------------------------- MODULE Spec2Model ----------------------------
(***************************************************************************)
(* Model of inject_dns (src/source/rust/glue/src/bin/inject_dns.rs):       *)
(* the checksum functions, modify() as a step machine over its two option  *)
(* walks, the IP tracker thread and the queue loop of main().              *)
(*                                                                         *)
(* Conventions.  A byte is a number in 0..255 and a buffer a sequence of   *)
(* bytes; the code's offsets are 0-based, so offset i is element i+1.      *)
(* Option<T> is a sequence of length 0 (None) or 1 (Some).  Unsigned       *)
(* arithmetic wraps at its width.  A u16 is a number below 2^16; a u32 is   *)
(* its two 16-bit halves <<high, low>> and a u64 its four 16-bit limbs,    *)
(* most significant first.                                                 *)
(***************************************************************************)
EXTENDS Integers, Sequences, FiniteSets, TLC

VARIABLES
    ne_little,        \* the build target is little-endian (from_ne_bytes, to_be)
    overflow_checks,  \* the build has overflow checks: an overflowing + panics instead of wrapping
    source,           \* modify: the source argument
    lifetime,         \* modify: the lifetime argument (u32)
    ip_arg,           \* modify: the ip argument (16 octets)
    m_pc,             \* modify: position ("idle", "start", "ra_loop", "ra_gen", "dhcp_loop", "dhcp_gen", "done")
    ipv6_packet,      \* modify: the local ipv6_packet
    at_option_start,  \* modify: the local at_option_start
    new_options,      \* modify: the local new_options
    m_result,         \* modify: the returned Option<Vec<u8>>
    proc,             \* the process: "running", "fatal" (queue error) or "panic" (exit(1))
    recheck_period,   \* main: recheck_period (u64 seconds)
    rdnss_lifetime,   \* main: rdnss_lifetime (u32)
    nf_mark,          \* main: args.nf_mark
    ip_rxtx,          \* the shared slot: Option<Option<Ipv6Addr>>
    mutex,            \* the Mutex around the slot: "free", or the thread holding its guard ("queue", "tracker")
    t_pc,             \* tracker thread: position ("poll", "publish", "sleep")
    found,            \* tracker thread: found
    found_first,      \* tracker thread: found_first
    t_sleep,          \* tracker thread: the duration (u64 seconds) of its last sleep, <<>> before it
    q_pc,             \* queue loop: position
    nf_queue_msg,     \* queue loop: the held message, Option<[payload, mark]>
    ip,               \* queue loop: ip, Option (None before its first assignment)
    k_recv,           \* queue (kernel side): Option<packet most recently handed out by recv()>
    k_site,           \* queue (kernel side): the position of the recv() that handed it out
    k_count,          \* queue (kernel side): verdicts issued for that packet
    k_verdict,        \* queue (kernel side): Option<[verdict, payload, mark]> last issued for it
    consumed,         \* history: the last update the queue loop took from ip_rxtx (None before the first)
    takes,            \* history: take()s of the queue loop since the last recv() returned
    fresh,            \* history: the tracker has published since the last take()
    ip_before,        \* history: the queue loop's ip just before its last take()
    replaced,         \* history: what was pending in the slot when the tracker last published
    ever_global,      \* history: some listing polled so far had a global IPv6 address on the interface
    listed            \* history: Option<the listing of the tracker's poll>, until it is published

mvars == <<source, lifetime, ip_arg, m_pc, ipv6_packet, at_option_start, new_options, m_result>>

tvars == <<t_pc, found, found_first, t_sleep>>

qvars == <<q_pc, nf_queue_msg, ip>>

kvars == <<k_recv, k_site, k_count, k_verdict>>

hvars == <<consumed, takes, fresh, ip_before, replaced, ever_global, listed>>

svars == <<proc, recheck_period, rdnss_lifetime, nf_mark, ip_rxtx, mutex, tvars, qvars, kvars, hvars>>

vars == <<ne_little, overflow_checks, mvars, svars>>

----------------------------------------------------------------------------
(* Bytes, slices and Option *)

None == <<>>

Some(x) == <<x>>

IsSome(o) == Len(o) = 1

Unwrap(o) == o[1]

U16 == 65536

\* u32 addition, wrapping at 32 bits
Add32(x, y) ==
    <<(x[1] + y[1] + ((x[2] + y[2]) \div U16)) % U16, (x[2] + y[2]) % U16>>

\* u16 as u32
U32Of(w) == <<0, w>>

\* slice.get(i): Some(byte at offset i) or None
Get(p, i) == IF i < Len(p) THEN Some(p[i + 1]) ELSE None

\* slice.get(a .. b): Some(bytes at offsets a..b-1) or None
GetRange(p, a, b) == IF a <= b /\ b <= Len(p) THEN Some(SubSeq(p, a + 1, b)) ELSE None

\* slice.get(a ..): Some(bytes from offset a on) or None
GetFrom(p, a) == IF a <= Len(p) THEN Some(SubSeq(p, a + 1, Len(p))) ELSE None

\* n as u16, then to_be_bytes()
U16BeBytes(n) == <<(n % U16) \div 256, n % 256>>

\* u32::to_be_bytes()
U32BeBytes(n) == <<n[1] \div 256, n[1] % 256, n[2] \div 256, n[2] % 256>>

\* u16::from_be_bytes
U16FromBe(b) == b[1] * 256 + b[2]

\* u16::from_ne_bytes: the pair as the target lays it out in memory
U16FromNe(b0, b1, le) == IF le THEN b0 + 256 * b1 ELSE 256 * b0 + b1

\* u16::to_be: a byte swap on a little-endian target, the identity otherwise
U16ToBe(x, le) == IF le THEN (x % 256) * 256 + (x \div 256) ELSE x

\* Variant of Or40: the flags byte is overwritten with 0x40
Set40(b) == 64

\* b |= 0x40
Or40(b) == IF (b \div 64) % 2 = 1 THEN b ELSE b + 64

----------------------------------------------------------------------------
(* Checksum engine *)

\* The sum of the 16-bit words number lo..hi of bytes (word k is the pair
\* at offsets 2k-2, 2k-1), as the chunks_exact(2) loop adds them.
RECURSIVE SumWords(_, _, _, _)
SumWords(bytes, lo, hi, le) ==
    IF lo > hi THEN U32Of(0)
    ELSE IF lo = hi THEN U32Of(U16FromNe(bytes[2 * lo - 1], bytes[2 * lo], le))
    ELSE LET mid == (lo + hi) \div 2
         IN  Add32(SumWords(bytes, lo, mid, le), SumWords(bytes, mid + 1, hi, le))

\* The remainder of chunks_exact(2): the unpaired last byte, paired with 0x00
RollRemainder(bytes, le) ==
    IF Len(bytes) % 2 = 1 THEN U16FromNe(bytes[Len(bytes)], 0, le) ELSE 0

checksum_roll(sum32, bytes, le) ==
    Add32(Add32(sum32, SumWords(bytes, 1, Len(bytes) \div 2, le)), U32Of(RollRemainder(bytes, le)))

\* (high + low) in u16: one addition, wrapping at 16 bits
FinishFold(sum32) == (sum32[1] + sum32[2]) % U16

checksum_finish(sum32, le) == U16BeBytes((U16 - 1) - U16ToBe(FinishFold(sum32), le))

\* Lines 64-73: sum32 as icmpv6_udp_checksum hands it to checksum_finish,
\* for a source of at least 8 bytes
Accumulator(src, le) ==
    LET s1 == checksum_roll(U32Of(0), Unwrap(GetRange(src, 4, 6)), le)
        s2 == Add32(s1, U32Of(U16FromNe(0, Unwrap(Get(src, 6)), le)))
    IN  checksum_roll(s2, Unwrap(GetFrom(src, 8)), le)

icmpv6_udp_checksum(src, le) ==
    IF Len(src) < 8 THEN None
    ELSE Some(checksum_finish(Accumulator(src, le), le))

----------------------------------------------------------------------------
(* modify: constants and helpers *)

IPV6_PAYLOAD_START == 40

NEXT_HEADER_ICMPV6 == 58

NEXT_HEADER_UDP == 17

ICMPV6_TYPE_RA == 134

DHCP_TYPE_REPLY == 7

OPT_RDNSS == 25

RA_FIXED_HEADER_SIZE == 16

RA_OPTIONS_START == IPV6_PAYLOAD_START + RA_FIXED_HEADER_SIZE

UDP_FIXED_HEADER_SIZE == 8

OPT_DNS == <<0, 23>>

DHCP_FIXED_HEADER_SIZE == 4

DHCP_OPTIONS_START == IPV6_PAYLOAD_START + UDP_FIXED_HEADER_SIZE + DHCP_FIXED_HEADER_SIZE

\* splice(packet, start, None, data): Some(packet with start.. replaced) or None
splice(packet, start, data) ==
    IF start > Len(packet) THEN None ELSE Some(SubSeq(packet, 1, start) \o data)

\* replace_u16(packet, start, data): Some(packet with 2 bytes overwritten) or None
replace_u16(packet, start, data) ==
    IF start + 2 > Len(packet) THEN None
    ELSE Some(SubSeq(packet, 1, start) \o data \o SubSeq(packet, start + 3, Len(packet)))

\* packet.get_mut(a .. a + 2)?.fill(0)
ZeroU16(packet, start) == replace_u16(packet, start, <<0, 0>>)

\* Variant of IsRouterAdvert: every ICMPv6 type is taken for an RA
IsRouterAdvertAny(type_) == TRUE

\* The ICMPv6 type check of the RA branch
IsRouterAdvert(type_) == type_ = ICMPV6_TYPE_RA

\* The message type check of the DHCPv6 branch
IsDhcpReply(type_) == type_ = DHCP_TYPE_REPLY

\* Variant of RaKeeps: every option is kept, RDNSS included
RaKeepsAll(at_option_type) == TRUE

\* The RA walk keeps every option that is not RDNSS
RaKeeps(at_option_type) == at_option_type # OPT_RDNSS

\* Variant of DhcpKeeps: the option code is compared with its bytes swapped
DhcpKeepsSwapped(at_option_type) == at_option_type # <<23, 0>>

\* The DHCPv6 walk keeps every option that is not the DNS option
DhcpKeeps(at_option_type) == at_option_type # OPT_DNS

RaOptionLength(length_byte) == length_byte * 8

DhcpOptionLength(length_bytes) == U16FromBe(length_bytes) + 4

\* Variant of RdnssOption: the option carries a fixed address
RdnssOptionFixed(lt, addr) ==
    <<OPT_RDNSS, 3, 0, 0>> \o U32BeBytes(lt) \o <<32, 1, 13, 184, 0, 0, 0, 0, 0, 0, 0, 0, 0, 0, 0, 83>>

\* The generated RDNSS option
RdnssOption(lt, addr) ==
    <<OPT_RDNSS, (1 + 1 + 2 + Len(U32BeBytes(lt)) + Len(addr)) \div 8, 0, 0>> \o U32BeBytes(lt) \o addr

\* The generated DHCPv6 DNS option
DnsOption(addr) == OPT_DNS \o <<0, 16>> \o addr

RaPayloadLength(opts) == U16BeBytes(RA_FIXED_HEADER_SIZE + Len(opts))

DhcpPayloadLength(opts) == U16BeBytes(UDP_FIXED_HEADER_SIZE + DHCP_FIXED_HEADER_SIZE + Len(opts))

\* Zero the checksum field at offset off, compute, write back
Rechecksum(packet, off, le) ==
    LET z == ZeroU16(packet, off)
    IN  IF ~IsSome(z) THEN None
        ELSE LET c == icmpv6_udp_checksum(Unwrap(z), le)
             IN  IF ~IsSome(c) THEN None ELSE replace_u16(Unwrap(z), off, Unwrap(c))

----------------------------------------------------------------------------
(* modify: the step machine *)

\* Variant of Exit: the failure is passed over and the queue loop carries
\* on with a receive
ErrorIgnored(how) ==
    /\ q_pc' = "recv_drop"
    /\ UNCHANGED <<ne_little, overflow_checks, mvars, proc, recheck_period, rdnss_lifetime, nf_mark, ip_rxtx, mutex, tvars,
                   nf_queue_msg, ip>>

\* Variant of Exit: only the tracker thread ends
ThreadOnly(how) ==
    /\ t_pc' = "off"
    /\ UNCHANGED <<ne_little, overflow_checks, mvars, proc, recheck_period, rdnss_lifetime, nf_mark, ip_rxtx,
                   mutex, found, found_first, t_sleep, qvars>>

\* The process exits: its threads and their memory are gone; what the
\* queue has been told stays
Exit(how) ==
    /\ proc' = how
    /\ ip_rxtx' = None
    /\ mutex' = "free"
    /\ t_pc' = "off"
    /\ found' = None
    /\ found_first' = FALSE
    /\ t_sleep' = <<>>
    /\ q_pc' = "off"
    /\ nf_queue_msg' = None
    /\ ip' = None
    /\ source' = <<>>
    /\ lifetime' = <<>>
    /\ ip_arg' = <<>>
    /\ m_pc' = "idle"
    /\ ipv6_packet' = <<>>
    /\ at_option_start' = 0
    /\ new_options' = <<>>
    /\ m_result' = None
    /\ UNCHANGED <<ne_little, overflow_checks, recheck_period, rdnss_lifetime, nf_mark>>

\* Line 51: high + low does not fit u16
FinishOverflows(sum32) == sum32[1] + sum32[2] >= U16

\* Lines 171-172 and 236-237 on packet: the checksum field is zeroed and
\* the accumulator handed to checksum_finish overflows its addition
RechecksumOverflows(packet, off, le) ==
    LET z == ZeroU16(packet, off)
    IN  /\ IsSome(z)
        /\ Len(Unwrap(z)) >= 8
        /\ FinishOverflows(Accumulator(Unwrap(z), le))

\* Lines 155-168: the RA packet with its new options and payload length
RaBeforeChecksum ==
    LET opts == new_options \o RdnssOption(lifetime, ip_arg)
        s1 == splice(ipv6_packet, RA_OPTIONS_START, opts)
    IN  IF IsSome(s1) THEN replace_u16(Unwrap(s1), 4, RaPayloadLength(opts)) ELSE None

\* Lines 216-233: the DHCPv6 packet with its new options and lengths
DhcpBeforeChecksum ==
    LET opts == new_options \o DnsOption(ip_arg)
        s1 == splice(ipv6_packet, DHCP_OPTIONS_START, opts)
        s2 == IF IsSome(s1)
              THEN replace_u16(Unwrap(s1), IPV6_PAYLOAD_START + 4, DhcpPayloadLength(opts)) ELSE None
    IN  IF IsSome(s2) THEN replace_u16(Unwrap(s2), 4, DhcpPayloadLength(opts)) ELSE None

\* modify is about to recompute a checksum whose fold overflows, in a
\* build that checks
FinishPanics ==
    /\ overflow_checks
    /\ \/ /\ m_pc = "ra_gen"
          /\ IsSome(RaBeforeChecksum)
          /\ RechecksumOverflows(Unwrap(RaBeforeChecksum), IPV6_PAYLOAD_START + 2, ne_little)
       \/ /\ m_pc = "dhcp_gen"
          /\ IsSome(DhcpBeforeChecksum)
          /\ RechecksumOverflows(Unwrap(DhcpBeforeChecksum), IPV6_PAYLOAD_START + 6, ne_little)

\* return from modify: the locals are dropped
Return(r) ==
    /\ m_pc' = "done"
    /\ m_result' = r
    /\ ipv6_packet' = <<>>
    /\ at_option_start' = 0
    /\ new_options' = <<>>

\* Lines 80-136 and 178-192: copy the source, dispatch on the next header,
\* check the message type, set the RA flag, enter the option walk.
ModifyStart ==
    /\ proc = "running"
    /\ m_pc = "start"
    /\ UNCHANGED <<ne_little, overflow_checks, source, lifetime, ip_arg, svars>>
    /\ LET p == source
           nh == Get(p, 6)
       IN  IF ~IsSome(nh) THEN Return(None)
           ELSE IF Unwrap(nh) = NEXT_HEADER_ICMPV6 THEN
                IF ~IsSome(Get(p, IPV6_PAYLOAD_START)) THEN Return(None)
                ELSE IF ~IsRouterAdvert(Unwrap(Get(p, IPV6_PAYLOAD_START))) THEN Return(None)
                ELSE IF ~IsSome(Get(p, IPV6_PAYLOAD_START + 5)) THEN Return(None)
                ELSE /\ m_pc' = "ra_loop"
                     /\ ipv6_packet' = [p EXCEPT ![IPV6_PAYLOAD_START + 5 + 1] = Or40(@)]
                     /\ at_option_start' = RA_OPTIONS_START
                     /\ new_options' = <<>>
                     /\ m_result' = None
           ELSE IF Unwrap(nh) = NEXT_HEADER_UDP THEN
                IF ~IsSome(Get(p, IPV6_PAYLOAD_START + UDP_FIXED_HEADER_SIZE)) THEN Return(None)
                ELSE IF ~IsDhcpReply(Unwrap(Get(p, IPV6_PAYLOAD_START + UDP_FIXED_HEADER_SIZE)))
                     THEN Return(None)
                ELSE /\ m_pc' = "dhcp_loop"
                     /\ ipv6_packet' = p
                     /\ at_option_start' = DHCP_OPTIONS_START
                     /\ new_options' = <<>>
                     /\ m_result' = None
           ELSE Return(None)

\* Lines 137-153: one iteration of the RA option walk
RaLoopStep ==
    /\ proc = "running"
    /\ m_pc = "ra_loop"
    /\ UNCHANGED <<ne_little, overflow_checks, source, lifetime, ip_arg, svars>>
    /\ LET p == ipv6_packet
           at == at_option_start
       IN  IF at = Len(p)
           THEN /\ m_pc' = "ra_gen"
                /\ UNCHANGED <<ipv6_packet, at_option_start, new_options, m_result>>
           ELSE IF ~IsSome(Get(p, at)) \/ ~IsSome(Get(p, at + 1)) THEN Return(None)
           ELSE LET at_option_type == Unwrap(Get(p, at))
                    at_option_length == RaOptionLength(Unwrap(Get(p, at + 1)))
                    body == GetRange(p, at, at + at_option_length)
                IN  IF RaKeeps(at_option_type) /\ ~IsSome(body) THEN Return(None)
                    ELSE /\ new_options' = IF RaKeeps(at_option_type)
                                            THEN new_options \o Unwrap(body) ELSE new_options
                         /\ at_option_start' = at + at_option_length
                         /\ UNCHANGED <<m_pc, ipv6_packet, m_result>>

\* Lines 155-173: append the RDNSS option, replace the options, set the
\* payload length, recompute the checksum, return the packet.
RaFinish ==
    /\ proc = "running"
    /\ m_pc = "ra_gen"
    /\ ~FinishPanics
    /\ UNCHANGED <<ne_little, overflow_checks, source, lifetime, ip_arg, svars>>
    /\ LET s2 == RaBeforeChecksum
           s3 == IF IsSome(s2) THEN Rechecksum(Unwrap(s2), IPV6_PAYLOAD_START + 2, ne_little) ELSE None
       IN  Return(s3)

\* Lines 193-214: one iteration of the DHCPv6 option walk
DhcpLoopStep ==
    /\ proc = "running"
    /\ m_pc = "dhcp_loop"
    /\ UNCHANGED <<ne_little, overflow_checks, source, lifetime, ip_arg, svars>>
    /\ LET p == ipv6_packet
           at == at_option_start
       IN  IF at = Len(p)
           THEN /\ m_pc' = "dhcp_gen"
                /\ UNCHANGED <<ipv6_packet, at_option_start, new_options, m_result>>
           ELSE IF ~IsSome(GetRange(p, at, at + 2)) \/ ~IsSome(GetRange(p, at + 2, at + 2 + 2))
                THEN Return(None)
           ELSE LET at_option_type == Unwrap(GetRange(p, at, at + 2))
                    at_option_length == DhcpOptionLength(Unwrap(GetRange(p, at + 2, at + 2 + 2)))
                    body == GetRange(p, at, at + at_option_length)
                IN  IF DhcpKeeps(at_option_type) /\ ~IsSome(body) THEN Return(None)
                    ELSE /\ new_options' = IF DhcpKeeps(at_option_type)
                                            THEN new_options \o Unwrap(body) ELSE new_options
                         /\ at_option_start' = at + at_option_length
                         /\ UNCHANGED <<m_pc, ipv6_packet, m_result>>

\* Lines 216-238: append the DNS option, replace the options, set the UDP
\* and IPv6 lengths, recompute the checksum, return the packet.
DhcpFinish ==
    /\ proc = "running"
    /\ m_pc = "dhcp_gen"
    /\ ~FinishPanics
    /\ UNCHANGED <<ne_little, overflow_checks, source, lifetime, ip_arg, svars>>
    /\ LET s3 == DhcpBeforeChecksum
           s4 == IF IsSome(s3) THEN Rechecksum(Unwrap(s3), IPV6_PAYLOAD_START + 6, ne_little) ELSE None
       IN  Return(s4)

\* Line 51 reached from line 172 or 237 in a build with overflow checks,
\* high + low above 0xFFFF: the addition panics and the panic hook (lines
\* 269-272) exits the process
ModifyPanics ==
    /\ proc = "running"
    /\ FinishPanics
    /\ Exit("panic")
    /\ UNCHANGED <<kvars, hvars>>

----------------------------------------------------------------------------
(* Inputs of the bounded check of modify *)

\* At most this many options in an input's option list
MaxOpts == 3

\* The IPv6 header and RA fixed header of the test fixture PAYLOAD_RA1
RaHeader ==
    <<107, 128, 0, 0, 0, 32, 58, 255,
      254, 128, 0, 0, 0, 0, 0, 0, 74, 46, 114, 255, 254, 99, 125, 16,
      255, 2, 0, 0, 0, 0, 0, 0, 0, 0, 0, 0, 0, 0, 0, 1,
      134, 0, 0, 0, 64, 192, 7, 8, 0, 4, 147, 224, 0, 0, 39, 16>>

\* The IPv6, UDP and DHCPv6 fixed headers of the test fixture PAYLOAD_DHCP1
DhcpHeader ==
    <<107, 128, 0, 0, 0, 145, 17, 1,
      254, 128, 0, 0, 0, 0, 0, 0, 0, 0, 64, 255, 254, 18, 32, 10,
      254, 128, 0, 0, 0, 0, 0, 0, 178, 110, 191, 255, 254, 57, 191, 123,
      2, 35, 2, 34, 0, 145, 0, 0,
      7, 86, 32, 253>>

\* RA options: source link-layer address and MTU (of the fixture), a prior
\* RDNSS option, and an option declaring length 0
RaOptSlla == <<1, 1, 72, 46, 114, 99, 125, 16>>

RaOptMtu == <<5, 1, 0, 0, 0, 0, 5, 220>>

\* An MTU option (MTU 9037)
RaOptMtuCarry == <<5, 1, 0, 0, 0, 0, 35, 77>>

RaOptOldRdnss == <<25, 3, 0, 0, 0, 0, 0, 10, 253, 0, 0, 0, 0, 0, 0, 0, 0, 0, 0, 0, 0, 0, 0, 83>>

RaOptZeroLen == <<14, 0, 0, 0, 0, 0, 0, 0>>

RaAlphabet == {RaOptSlla, RaOptMtu, RaOptOldRdnss, RaOptZeroLen}

\* DHCPv6 options: a preference option (type 7), a prior DNS option (type
\* 0x0017), and an empty option of type 0x1700
DhcpOptPref == <<0, 7, 0, 1, 255>>

DhcpOptOldDns == <<0, 23, 0, 16, 253, 0, 0, 0, 0, 0, 0, 0, 0, 0, 0, 0, 0, 0, 0, 83>>

DhcpOptSwapped == <<23, 0, 0, 0>>

DhcpAlphabet == {DhcpOptPref, DhcpOptOldDns, DhcpOptSwapped}

\* All option lists of at most n options over an alphabet
OptLists(alphabet, n) == UNION {[1..k -> alphabet] : k \in 0..n}

RECURSIVE Flatten(_)
Flatten(list) == IF list = <<>> THEN <<>> ELSE Head(list) \o Flatten(Tail(list))

SetByte(p, off, v) == [p EXCEPT ![off + 1] = v]

Prefix(p, n) == SubSeq(p, 1, n)

\* Where an input is cut short: before each required header field, and at
\* every offset of the option list
CutPoints(p, options_start) ==
    {0, 6, 7, 8, 40, 41, 45, 46, 48, 49, 51, 52, 55} \cup (options_start .. Len(p))

RaPackets == {RaHeader \o Flatten(l) : l \in OptLists(RaAlphabet, MaxOpts)}

DhcpPackets == {DhcpHeader \o Flatten(l) : l \in OptLists(DhcpAlphabet, MaxOpts)}

\* Complete packets with another next header or another message type
Variants ==
    UNION {{SetByte(p, 6, 6), SetByte(p, 6, 0), SetByte(p, 40, 133), SetByte(p, 40, 135)} :
             p \in {q \in RaPackets : Len(q) <= RA_OPTIONS_START + 8}}
    \cup UNION {{SetByte(p, 6, 6), SetByte(p, 6, 59), SetByte(p, 48, 1), SetByte(p, 48, 3)} :
             p \in {q \in DhcpPackets : Len(q) <= DHCP_OPTIONS_START + 5}}

\* Router Advertisements with other flags bytes: no flag set, and the
\* "managed" flag (0x80) alone
FlagVariants ==
    UNION {{SetByte(p, IPV6_PAYLOAD_START + 5, 0), SetByte(p, IPV6_PAYLOAD_START + 5, 128)} :
             p \in {q \in RaPackets : Len(q) <= RA_OPTIONS_START + 8}}

\* A DHCPv6 Reply whose single option brings the rewritten UDP payload to
\* 65536 bytes (the input's own IPv6 payload is 65516 bytes)
LargeOptionBody == 65500

LargeDhcp ==
    DhcpHeader \o <<0, 7>> \o U16BeBytes(LargeOptionBody) \o [i \in 1..LargeOptionBody |-> 0]

Inputs ==
    UNION {{Prefix(p, n) : n \in {c \in CutPoints(p, RA_OPTIONS_START) : c <= Len(p)}} : p \in RaPackets}
    \cup UNION {{Prefix(p, n) : n \in {c \in CutPoints(p, DHCP_OPTIONS_START) : c <= Len(p)}} : p \in DhcpPackets}
    \cup Variants
    \cup FlagVariants
    \cup {LargeDhcp}

\* Resolver addresses: 1:2:3:4:5:6:7:8 of the tests, and two addresses under
\* 2001:db8::/32
Ip1 == <<0, 1, 0, 2, 0, 3, 0, 4, 0, 5, 0, 6, 0, 7, 0, 8>>

Ip2 == <<32, 1, 13, 184, 0, 0, 0, 0, 0, 0, 0, 0, 24, 255, 0, 245>>

Ip3 == <<32, 1, 13, 184, 0, 0, 0, 0, 0, 0, 0, 0, 23, 255, 0, 246>>

\* Lifetimes: 30 of the tests, and 0xE0FF0009
Lifetime1 == <<0, 30>>

Lifetime2 == <<57599, 9>>

\* The (lifetime, ip) arguments tried on a target
ModifyArgs(le) == {<<Lifetime1, Ip1>>, <<Lifetime2, IF le THEN Ip2 ELSE Ip3>>}

IdleSystem ==
    /\ proc = "running"
    /\ recheck_period = <<0, 0, 0, 60>>
    /\ rdnss_lifetime = <<0, 60>>
    /\ nf_mark = 0
    /\ ip_rxtx = None
    /\ mutex = "free"
    /\ t_pc = "off"
    /\ found = None
    /\ found_first = FALSE
    /\ t_sleep = <<>>
    /\ q_pc = "off"
    /\ nf_queue_msg = None
    /\ ip = None
    /\ k_recv = None
    /\ k_site = "none"
    /\ consumed = None
    /\ takes = 0
    /\ fresh = FALSE
    /\ ip_before = None
    /\ replaced = None
    /\ ever_global = FALSE
    /\ listed = None
    /\ k_count = 0
    /\ k_verdict = None

\* modify called on each input, on each target
InitModify ==
    /\ ne_little \in BOOLEAN
    /\ overflow_checks \in BOOLEAN
    /\ source \in Inputs
    /\ \E a \in ModifyArgs(ne_little) : lifetime = a[1] /\ ip_arg = a[2]
    /\ m_pc = "start"
    /\ ipv6_packet = <<>>
    /\ at_option_start = 0
    /\ new_options = <<>>
    /\ m_result = None
    /\ IdleSystem

ModifyStep == ModifyStart \/ RaLoopStep \/ RaFinish \/ DhcpLoopStep \/ DhcpFinish \/ ModifyPanics

SpecModify == InitModify /\ [][ModifyStep]_vars

----------------------------------------------------------------------------
(* Inputs of the bounded check of icmpv6_udp_checksum *)

\* A Router Advertisement as modify hands it over at line 172 (payload
\* length set, checksum zeroed) whose fold carries on a little-endian target
RaCarrying ==
    Unwrap(ZeroU16(Unwrap(replace_u16(RaHeader \o RaOptMtuCarry \o RdnssOption(<<0, 60>>, Ip1), 4,
                                      RaPayloadLength(RaOptMtuCarry \o RdnssOption(<<0, 60>>, Ip1)))),
                   IPV6_PAYLOAD_START + 2))

\* Every prefix of a Router Advertisement and of a DHCPv6 Reply, the empty
\* one and the whole packet included
ChecksumInputs ==
    UNION {{Prefix(p, n) : n \in 0 .. Len(p)} : p \in {RaHeader \o RaOptSlla, DhcpHeader \o DhcpOptPref}}
    \cup {RaCarrying}

\* icmpv6_udp_checksum called on each input, on each target; m_result is
\* to hold what it returns
InitChecksum ==
    /\ ne_little \in BOOLEAN
    /\ overflow_checks \in BOOLEAN
    /\ source \in ChecksumInputs
    /\ lifetime = <<>>
    /\ ip_arg = <<>>
    /\ m_pc = "checksum"
    /\ ipv6_packet = <<>>
    /\ at_option_start = 0
    /\ new_options = <<>>
    /\ m_result = None
    /\ IdleSystem

\* Line 76 panics at line 51: a build with overflow checks, high + low
\* above 0xFFFF
ChecksumOverflowPanics ==
    /\ overflow_checks
    /\ Len(source) >= 8
    /\ FinishOverflows(Accumulator(source, ne_little))

\* Lines 54-77: icmpv6_udp_checksum(source) returns
ChecksumCall ==
    /\ proc = "running"
    /\ m_pc = "checksum"
    /\ ~ChecksumOverflowPanics
    /\ m_pc' = "checksum_done"
    /\ m_result' = icmpv6_udp_checksum(source, ne_little)
    /\ UNCHANGED <<ne_little, overflow_checks, source, lifetime, ip_arg, ipv6_packet, at_option_start,
                   new_options, svars>>

\* Lines 54-77: the call panics and the hook exits the process
ChecksumPanics ==
    /\ proc = "running"
    /\ m_pc = "checksum"
    /\ ChecksumOverflowPanics
    /\ Exit("panic")
    /\ UNCHANGED <<kvars, hvars>>

ChecksumStep == ChecksumCall \/ ChecksumPanics

SpecChecksum == InitChecksum /\ [][ChecksumStep]_vars

----------------------------------------------------------------------------
(* main: configuration, the IP tracker thread and the queue loop *)

\* args.nf_mark of the run
CfgNfMark == 1

\* The mark a packet carries when the queue hands it out
KernelMark == 0

\* args.recheck_period (u64 seconds): absent, or 2^32 + 30
CfgRecheckPeriods == {None, Some(<<0, 1, 0, 30>>)}

DefaultRecheckPeriod == <<0, 0, 0, 60>>

FirstPollSleep == <<0, 0, 0, 5>>

\* args.recheck_period.unwrap_or(60)
RecheckPeriodOf(arg) == IF IsSome(arg) THEN Unwrap(arg) ELSE DefaultRecheckPeriod

\* recheck_period as u32: the low 32 bits
AsU32(x) == <<x[3], x[4]>>

\* args.interface
WantIface == "eth0"

V4Addr == [v6 |-> FALSE, global |-> TRUE, octets |-> <<>>]

LinkLocal == [v6 |-> TRUE, global |-> FALSE, octets |-> <<254, 128, 0, 0, 0, 0, 0, 0, 0, 0, 0, 0, 0, 0, 0, 1>>]

Global(a) == [v6 |-> TRUE, global |-> TRUE, octets |-> a]

Iface(name, addr) == [name |-> name, addr |-> addr]

\* What NetworkInterface::show() may return: no interface, another
\* interface only, the interface without a global IPv6 address, with one,
\* with two, and listed in two entries
Listings ==
    { <<>>,
      <<Iface("lo", <<Global(Ip1)>>)>>,
      <<Iface("eth0", <<V4Addr, LinkLocal>>)>>,
      <<Iface("eth0", <<LinkLocal, Global(Ip1)>>)>>,
      <<Iface("eth0", <<Global(Ip1), V4Addr, Global(Ip2)>>)>>,
      <<Iface("eth0", <<Global(Ip2)>>), Iface("lo", <<Global(Ip2)>>), Iface("eth0", <<Global(Ip1), LinkLocal>>)>> }

\* Variant of ScanAddrs: the first global IPv6 address is kept
RECURSIVE ScanAddrsFirst(_, _)
ScanAddrsFirst(addrs, acc) ==
    IF addrs = <<>> THEN acc
    ELSE ScanAddrsFirst(Tail(addrs),
                        IF Head(addrs).v6 /\ Head(addrs).global /\ ~IsSome(acc)
                        THEN Some(Head(addrs).octets) ELSE acc)

\* Lines 295-304: the addresses of one entry, each global IPv6 address
\* replacing found
RECURSIVE ScanAddrs(_, _)
ScanAddrs(addrs, acc) ==
    IF addrs = <<>> THEN acc
    ELSE ScanAddrs(Tail(addrs),
                   IF Head(addrs).v6 /\ Head(addrs).global THEN Some(Head(addrs).octets) ELSE acc)

\* Lines 288-305: the entries named like the wanted interface, in order
RECURSIVE ScanIfaces(_, _)
ScanIfaces(ifaces, acc) ==
    IF ifaces = <<>> THEN acc
    ELSE ScanIfaces(Tail(ifaces),
                    IF WantIface # Head(ifaces).name THEN acc ELSE ScanAddrs(Head(ifaces).addr, acc))

\* Variant of FoundFirstAfter: found_first follows the poll's result
FoundThisPoll(before, result) == IsSome(result)

\* Line 303: found_first is set with found, and never cleared (line 285
\* is outside the loop)
FoundFirstAfter(before, result) == before \/ IsSome(result)

\* The listing has a global IPv6 address on the wanted interface
HasGlobal(listing) ==
    \E i \in 1..Len(listing) :
        /\ listing[i].name = WantIface
        /\ \E j \in 1..Len(listing[i].addr) : listing[i].addr[j].v6 /\ listing[i].addr[j].global

\* Lines 287-308 with a listing: found and found_first of this cycle
TrackerPoll ==
    /\ proc = "running"
    /\ t_pc = "poll"
    /\ \E listing \in Listings :
          /\ found' = ScanIfaces(listing, None)
          /\ found_first' = FoundFirstAfter(found_first, ScanIfaces(listing, None))
          /\ ever_global' = (ever_global \/ HasGlobal(listing))
          /\ listed' = Some(listing)
    /\ t_pc' = "publish"
    /\ UNCHANGED <<ne_little, overflow_checks, mvars, proc, recheck_period, rdnss_lifetime, nf_mark, ip_rxtx, mutex, t_sleep,
                   qvars, kvars, consumed, takes, fresh, ip_before, replaced>>

\* Lines 288-290: NetworkInterface::show() fails, unwrap() panics and the
\* panic hook (lines 269-272) exits the process
TrackerPollFails ==
    /\ proc = "running"
    /\ t_pc = "poll"
    /\ Exit("panic")
    /\ UNCHANGED <<kvars, hvars>>

\* Variant of Dropped: the guard is kept
NotDropped(holder) == holder

\* The mutex once the guard of holder is dropped: at the end of the
\* statement that took it (line 309; the if let of lines 323-325, 354-363
\* and 370-373)
Dropped(holder) == "free"

\* Line 309: ip_rxtx.lock() returns the guard
TrackerLock ==
    /\ proc = "running"
    /\ t_pc = "publish"
    /\ mutex = "free"
    /\ mutex' = "tracker"
    /\ UNCHANGED <<ne_little, overflow_checks, mvars, proc, recheck_period, rdnss_lifetime, nf_mark, ip_rxtx, tvars,
                   qvars, kvars, hvars>>

\* Variant of Published: a pending value is left in place
PublishedIfEmpty(pending, result) == IF IsSome(pending) THEN pending ELSE Some(result)

\* Line 309: the slot after the assignment, whatever was pending
Published(pending, result) == Some(result)

\* Line 309: *guard = Some(found), and the guard is dropped
TrackerPublish ==
    /\ proc = "running"
    /\ t_pc = "publish"
    /\ mutex = "tracker"
    /\ ip_rxtx' = Published(ip_rxtx, found)
    /\ mutex' = Dropped("tracker")
    /\ t_pc' = "sleep"
    /\ fresh' = TRUE
    /\ replaced' = ip_rxtx
    /\ listed' = None
    /\ UNCHANGED <<ne_little, overflow_checks, mvars, proc, recheck_period, rdnss_lifetime, nf_mark, found, found_first,
                   t_sleep, qvars, kvars, consumed, takes, ip_before, ever_global>>

\* Lines 310-314: sleep 5 seconds or the recheck period, then loop
TrackerSleep ==
    /\ proc = "running"
    /\ t_pc = "sleep"
    /\ t_sleep' = IF ~found_first THEN FirstPollSleep ELSE recheck_period
    /\ t_pc' = "poll"
    /\ UNCHANGED <<ne_little, overflow_checks, mvars, proc, recheck_period, rdnss_lifetime, nf_mark, ip_rxtx, mutex, found,
                   found_first, qvars, kvars, hvars>>

\* The packets the queue hands out: a Router Advertisement, a DHCPv6
\* Reply, a Router Solicitation, a Router Advertisement with an option
\* of length 0, a Router Advertisement whose RDNSS option carries an
\* address the interface may have, and a Router Advertisement whose
\* rewriting makes checksum_finish overflow on a little-endian target
QueuePackets ==
    { RaHeader \o RaOptSlla \o RaOptOldRdnss,
      DhcpHeader \o DhcpOptPref,
      SetByte(RaHeader, 40, 133),
      RaHeader \o RaOptZeroLen,
      RaHeader \o RdnssOption(Lifetime1, Ip1),
      RaHeader \o RaOptMtuCarry }

Message(payload, mark) == [payload |-> payload, mark |-> mark]

\* Variant of AfterRecv: the drop-again loop goes on to modify without
\* looking at ip_rxtx
AfterRecvNoCheck(pc) ==
    IF pc = "recv_initial" THEN "take_initial"
    ELSE IF pc = "recv_rewrite" THEN "take_rewrite"
    ELSE "modify"

\* Where the loop goes with the message recv() returned
AfterRecv(pc) ==
    IF pc = "recv_initial" THEN "take_initial"
    ELSE IF pc = "recv_rewrite" THEN "take_rewrite"
    ELSE "take_drop"

\* Lines 322, 351 and 369: nf_queue.recv() returns a message, which
\* replaces the one the loop variable held
QRecv ==
    /\ proc = "running"
    /\ q_pc \in {"recv_initial", "recv_rewrite", "recv_drop"}
    /\ \E payload \in QueuePackets :
          /\ nf_queue_msg' = Some(Message(payload, KernelMark))
          /\ k_recv' = Some(payload)
    /\ k_site' = q_pc
    /\ k_count' = 0
    /\ k_verdict' = None
    /\ q_pc' = AfterRecv(q_pc)
    /\ takes' = 0
    /\ UNCHANGED <<ne_little, overflow_checks, mvars, proc, recheck_period, rdnss_lifetime, nf_mark, ip_rxtx, mutex, tvars, ip,
                   consumed, fresh, ip_before, replaced, ever_global, listed>>

\* Lines 322, 351 and 369: nf_queue.recv() fails; main returns the error
\* and fatal() ends the process
QRecvFails ==
    /\ proc = "running"
    /\ q_pc \in {"recv_initial", "recv_rewrite", "recv_drop"}
    /\ Exit("fatal")
    /\ UNCHANGED <<kvars, hvars>>

\* Variant of SlotAfterTake: the slot is read, not taken
SlotAfterRead(slot) == slot

\* Option::take (lines 323, 354, 370): what it leaves in the slot
SlotAfterTake(slot) == None

\* ip_rxtx.lock().unwrap().take() seeing Some(Some(ip))
TookAddress(slot) == IsSome(slot) /\ IsSome(Unwrap(slot))

\* The last update taken, after a take() that saw slot
Taken(slot, before) == IF IsSome(slot) THEN Unwrap(slot) ELSE before

\* Lines 323, 354 and 370: ip_rxtx.lock() returns the guard
QLock ==
    /\ proc = "running"
    /\ q_pc \in {"take_initial", "take_rewrite", "take_drop"}
    /\ mutex = "free"
    /\ mutex' = "queue"
    /\ UNCHANGED <<ne_little, overflow_checks, mvars, proc, recheck_period, rdnss_lifetime, nf_mark, ip_rxtx, tvars,
                   qvars, kvars, hvars>>

\* Lines 323-325: take in the initial loop
QTakeInitial ==
    /\ proc = "running"
    /\ q_pc = "take_initial"
    /\ mutex = "queue"
    /\ ip_rxtx' = SlotAfterTake(ip_rxtx)
    /\ mutex' = Dropped("queue")
    /\ consumed' = Taken(ip_rxtx, consumed)
    /\ takes' = takes + 1
    /\ fresh' = FALSE
    /\ ip_before' = ip
    /\ IF TookAddress(ip_rxtx)
       THEN ip' = Unwrap(ip_rxtx) /\ q_pc' = "modify"
       ELSE ip' = ip /\ q_pc' = "verdict_initial"
    /\ UNCHANGED <<ne_little, overflow_checks, mvars, proc, recheck_period, rdnss_lifetime, nf_mark, tvars, nf_queue_msg,
                   kvars, replaced, ever_global, listed>>

\* What the queue records of nf_queue.verdict(msg)
Issue(verdict, msg) ==
    /\ k_count' = k_count + 1
    /\ k_verdict' = Some([verdict |-> verdict, payload |-> msg.payload, mark |-> msg.mark])
    /\ k_recv' = k_recv
    /\ k_site' = k_site

\* Where the loop goes after the Drop verdict of a dropping loop
AfterDrop(pc) == IF pc = "verdict_initial" THEN "recv_initial" ELSE "recv_drop"

\* Lines 326-327 and 374-375: set_verdict(Drop), nf_queue.verdict(msg)
QDrop ==
    /\ proc = "running"
    /\ q_pc \in {"verdict_initial", "verdict_drop"}
    /\ Issue("Drop", Unwrap(nf_queue_msg))
    /\ nf_queue_msg' = None
    /\ q_pc' = AfterDrop(q_pc)
    /\ UNCHANGED <<ne_little, overflow_checks, mvars, proc, recheck_period, rdnss_lifetime, nf_mark, ip_rxtx, mutex, tvars, ip,
                   hvars>>

\* Line 336: modify(nf_queue_msg.get_payload(), rdnss_lifetime, ip) is called
QModifyCall ==
    /\ proc = "running"
    /\ q_pc = "modify"
    /\ source' = Unwrap(nf_queue_msg).payload
    /\ lifetime' = rdnss_lifetime
    /\ ip_arg' = Unwrap(ip)
    /\ m_pc' = "start"
    /\ q_pc' = "verdict_rewrite"
    /\ UNCHANGED <<ne_little, overflow_checks, ipv6_packet, at_option_start, new_options, m_result, proc, recheck_period,
                   rdnss_lifetime, nf_mark, ip_rxtx, mutex, tvars, nf_queue_msg, ip, kvars, hvars>>

\* Variant of Rewritten: the payload is replaced, the mark is not set
RewrittenNoMark(msg, result, mark) ==
    IF IsSome(result) THEN Message(Unwrap(result), msg.mark) ELSE msg

\* The message as lines 337-340 and 343-345 leave it: payload and mark
\* set for Repeat, untouched for Drop
Rewritten(msg, result, mark) == IF IsSome(result) THEN Message(Unwrap(result), mark) ELSE msg

\* Variant of VerdictFor: Drop whatever modify returned
VerdictAlwaysDrop(result) == "Drop"


VerdictFor(result) == IF IsSome(result) THEN "Repeat" ELSE "Drop"

\* Lines 337-347: modify has returned; Repeat with the new payload and the
\* mark, or Drop
QVerdictRewrite ==
    /\ proc = "running"
    /\ q_pc = "verdict_rewrite"
    /\ m_pc = "done"
    /\ Issue(VerdictFor(m_result), Rewritten(Unwrap(nf_queue_msg), m_result, nf_mark))
    /\ nf_queue_msg' = None
    /\ q_pc' = "recv_rewrite"
    /\ source' = <<>>
    /\ lifetime' = <<>>
    /\ ip_arg' = <<>>
    /\ m_pc' = "idle"
    /\ m_result' = None
    /\ UNCHANGED <<ne_little, overflow_checks, ipv6_packet, at_option_start, new_options, proc, recheck_period,
                   rdnss_lifetime, nf_mark, ip_rxtx, mutex, tvars, ip, hvars>>

\* Lines 327, 341, 346 and 375: nf_queue.verdict() fails; main returns the
\* error and fatal() ends the process
QVerdictFails ==
    /\ proc = "running"
    /\ \/ q_pc \in {"verdict_initial", "verdict_drop"}
       \/ q_pc = "verdict_rewrite" /\ m_pc = "done"
    /\ Exit("fatal")
    /\ UNCHANGED <<kvars, hvars>>

\* Variant of AfterUpdate: the address in use is kept
AfterUpdateKeepsOld(old, update) == old

\* Lines 355-362: ip after the match on the update taken
AfterUpdate(old, update) == IF IsSome(update) THEN update ELSE old

\* Lines 354-363: take in the rewrite loop
QTakeRewrite ==
    /\ proc = "running"
    /\ q_pc = "take_rewrite"
    /\ mutex = "queue"
    /\ ip_rxtx' = SlotAfterTake(ip_rxtx)
    /\ mutex' = Dropped("queue")
    /\ consumed' = Taken(ip_rxtx, consumed)
    /\ takes' = takes + 1
    /\ fresh' = FALSE
    /\ ip_before' = ip
    /\ IF ~IsSome(ip_rxtx) THEN ip' = ip /\ q_pc' = "modify"
       ELSE /\ ip' = AfterUpdate(ip, Unwrap(ip_rxtx))
            /\ q_pc' = IF IsSome(Unwrap(ip_rxtx)) THEN "modify" ELSE "recv_drop"
    /\ UNCHANGED <<ne_little, overflow_checks, mvars, proc, recheck_period, rdnss_lifetime, nf_mark, tvars, nf_queue_msg,
                   kvars, replaced, ever_global, listed>>

\* Lines 370-373: take in the drop-again loop
QTakeDrop ==
    /\ proc = "running"
    /\ q_pc = "take_drop"
    /\ mutex = "queue"
    /\ ip_rxtx' = SlotAfterTake(ip_rxtx)
    /\ mutex' = Dropped("queue")
    /\ consumed' = Taken(ip_rxtx, consumed)
    /\ takes' = takes + 1
    /\ fresh' = FALSE
    /\ ip_before' = ip
    /\ IF TookAddress(ip_rxtx)
       THEN ip' = Unwrap(ip_rxtx) /\ q_pc' = "modify"
       ELSE ip' = ip /\ q_pc' = "verdict_drop"
    /\ UNCHANGED <<ne_little, overflow_checks, mvars, proc, recheck_period, rdnss_lifetime, nf_mark, tvars, nf_queue_msg,
                   kvars, replaced, ever_global, listed>>

\* main up to line 320: the arguments are read, the tracker thread is
\* spawned, the queue loop is about to receive
Init ==
    /\ ne_little \in BOOLEAN
    /\ overflow_checks \in BOOLEAN
    /\ \E arg \in CfgRecheckPeriods :
          /\ recheck_period = RecheckPeriodOf(arg)
          /\ rdnss_lifetime = AsU32(RecheckPeriodOf(arg))
    /\ nf_mark = CfgNfMark
    /\ proc = "running"
    /\ ip_rxtx = None
    /\ mutex = "free"
    /\ t_pc = "poll"
    /\ found = None
    /\ found_first = FALSE
    /\ t_sleep = <<>>
    /\ q_pc = "recv_initial"
    /\ nf_queue_msg = None
    /\ ip = None
    /\ k_recv = None
    /\ k_site = "none"
    /\ consumed = None
    /\ takes = 0
    /\ fresh = FALSE
    /\ ip_before = None
    /\ replaced = None
    /\ ever_global = FALSE
    /\ listed = None
    /\ k_count = 0
    /\ k_verdict = None
    /\ source = <<>>
    /\ lifetime = <<>>
    /\ ip_arg = <<>>
    /\ m_pc = "idle"
    /\ ipv6_packet = <<>>
    /\ at_option_start = 0
    /\ new_options = <<>>
    /\ m_result = None

Tracker == TrackerPoll \/ TrackerPollFails \/ TrackerLock \/ TrackerPublish \/ TrackerSleep

QueueLoop ==
    \/ QRecv
    \/ QRecvFails
    \/ QLock
    \/ QTakeInitial
    \/ QDrop
    \/ QModifyCall
    \/ QVerdictRewrite
    \/ QVerdictFails
    \/ QTakeRewrite
    \/ QTakeDrop

Next == Tracker \/ QueueLoop \/ ModifyStep

Spec == Init /\ [][Next]_vars

----------------------------------------------------------------------------
(* Vocabulary of the statements about modify, read off the wire formats *)

ByteAt(p, off) == p[off + 1]

BeU16At(p, off) == p[off + 1] * 256 + p[off + 2]

From(p, off) == SubSeq(p, off + 1, Len(p))

ZeroedAt(p, off) == SubSeq(p, 1, off) \o <<0, 0>> \o SubSeq(p, off + 3, Len(p))

\* An RA option list: options of non-zero length (8-byte units, header
\* included) ending exactly at the end
RECURSIVE RaListOk(_)
RaListOk(b) ==
    \/ b = <<>>
    \/ /\ Len(b) >= 2
       /\ b[2] # 0
       /\ 8 * b[2] <= Len(b)
       /\ RaListOk(From(b, 8 * b[2]))

RECURSIVE RaList(_)
RaList(b) == IF b = <<>> THEN <<>> ELSE <<Prefix(b, 8 * b[2])>> \o RaList(From(b, 8 * b[2]))

\* A DHCPv6 option list: options with a 2-byte type and a 2-byte length
\* (header excluded) ending exactly at the end
RECURSIVE DhcpListOk(_)
DhcpListOk(b) ==
    \/ b = <<>>
    \/ /\ Len(b) >= 4
       /\ 4 + BeU16At(b, 2) <= Len(b)
       /\ DhcpListOk(From(b, 4 + BeU16At(b, 2)))

RECURSIVE DhcpList(_)
DhcpList(b) ==
    IF b = <<>> THEN <<>> ELSE <<Prefix(b, 4 + BeU16At(b, 2))>> \o DhcpList(From(b, 4 + BeU16At(b, 2)))

WellFormedRa(p) ==
    /\ Len(p) >= 56
    /\ ByteAt(p, 6) = 58
    /\ ByteAt(p, 40) = 134
    /\ RaListOk(From(p, 56))

WellFormedDhcp(p) ==
    /\ Len(p) >= 52
    /\ ByteAt(p, 6) = 17
    /\ ByteAt(p, 48) = 7
    /\ DhcpListOk(From(p, 52))

NotRdnss(opt) == opt[1] # 25

NotDns(opt) == ~(opt[1] = 0 /\ opt[2] = 23)

LifetimeBytes(lt) == <<lt[1] \div 256, lt[1] % 256, lt[2] \div 256, lt[2] % 256>>

Returned == m_pc = "done"

\* The RA walk is at an option that declares length 0: the iteration at
\* lines 137-153 leaves at_option_start and new_options as they are
StuckInRaWalk ==
    /\ m_pc = "ra_loop"
    /\ at_option_start + 1 < Len(ipv6_packet)
    /\ ByteAt(ipv6_packet, at_option_start + 1) = 0

----------------------------------------------------------------------------
(* C4 *)

\* C4: for every well-formed Router Advertisement, modify returns a packet
\* whose option list is the original options of type # 25 in their
\* original order followed by exactly one RDNSS option [25, 3, 0, 0,
\* lifetime (4 bytes, big-endian), the 16 address bytes], and whose bytes
\* 42-43 are icmpv6_udp_checksum of the final bytes with that field zeroed.
C4_RaRewrite ==
    (Returned /\ WellFormedRa(source)) =>
        /\ IsSome(m_result)
        /\ LET r == Unwrap(m_result)
           IN  /\ Len(r) >= 56
               /\ RaListOk(From(r, 56))
               /\ RaList(From(r, 56)) =
                      SelectSeq(RaList(From(source, 56)), NotRdnss)
                      \o << <<25, 3, 0, 0>> \o LifetimeBytes(lifetime) \o ip_arg >>
               /\ <<ByteAt(r, 42), ByteAt(r, 43)>> =
                      Unwrap(icmpv6_udp_checksum(ZeroedAt(r, 42), ne_little))

\* modify has returned on a Router Advertisement with a kept option, a
\* prior RDNSS option and another kept option
C4_Witness ==
    /\ Returned
    /\ source = RaHeader \o RaOptSlla \o RaOptOldRdnss \o RaOptMtu
    /\ IsSome(m_result)
    /\ From(Unwrap(m_result), 56) = RaOptSlla \o RaOptMtu \o RdnssOption(lifetime, ip_arg)

----------------------------------------------------------------------------
(* C5 *)

\* C5: for every well-formed DHCPv6 Reply, modify returns a packet whose
\* option list is the original options of type # 0x0017 in their original
\* order followed by exactly one option [0, 0x17, 0, 0x10, the 16 address
\* bytes], and whose bytes 46-47 are icmpv6_udp_checksum of the final bytes
\* with that field zeroed.
C5_DhcpRewrite ==
    (Returned /\ WellFormedDhcp(source)) =>
        /\ IsSome(m_result)
        /\ LET r == Unwrap(m_result)
           IN  /\ Len(r) >= 52
               /\ DhcpListOk(From(r, 52))
               /\ DhcpList(From(r, 52)) =
                      SelectSeq(DhcpList(From(source, 52)), NotDns)
                      \o << <<0, 23, 0, 16>> \o ip_arg >>
               /\ <<ByteAt(r, 46), ByteAt(r, 47)>> =
                      Unwrap(icmpv6_udp_checksum(ZeroedAt(r, 46), ne_little))

\* modify has returned on a DHCPv6 Reply with a kept option, a prior DNS
\* option and an option of type 0x1700
C5_Witness ==
    /\ Returned
    /\ source = DhcpHeader \o DhcpOptPref \o DhcpOptOldDns \o DhcpOptSwapped
    /\ IsSome(m_result)
    /\ From(Unwrap(m_result), 52) = DhcpOptPref \o DhcpOptSwapped \o DnsOption(ip_arg)

----------------------------------------------------------------------------
(* C6 *)

\* C6: for every input on which modify returns a packet, whatever the
\* input's length, the IPv6 payload-length field (bytes 4-5) of the result
\* equals the result's length minus 40, and in the UDP branch the UDP
\* length field (bytes 44-45) equals that same value.
C6_LengthFields ==
    (Returned /\ IsSome(m_result)) =>
        LET r == Unwrap(m_result)
        IN  /\ BeU16At(r, 4) = Len(r) - 40
            /\ ByteAt(source, 6) = 17 => BeU16At(r, 44) = Len(r) - 40

----------------------------------------------------------------------------
(* C7 *)

\* Ones'-complement addition of two 16-bit values, the carry folded in
OcAdd(a, b) == IF a + b >= U16 THEN a + b - U16 + 1 ELSE a + b

\* The ones'-complement sum of the big-endian words number lo..hi of bytes
RECURSIVE OcSumWords(_, _, _)
OcSumWords(bytes, lo, hi) ==
    IF lo > hi THEN 0
    ELSE IF lo = hi THEN bytes[2 * lo - 1] * 256 + bytes[2 * lo]
    ELSE LET mid == (lo + hi) \div 2
         IN  OcAdd(OcSumWords(bytes, lo, mid), OcSumWords(bytes, mid + 1, hi))

\* RFC 1071 sum of a byte range, an odd last byte padded with a zero byte
OcSum(bytes) ==
    OcAdd(OcSumWords(bytes, 1, Len(bytes) \div 2),
          IF Len(bytes) % 2 = 1 THEN bytes[Len(bytes)] * 256 ELSE 0)

\* The sum over the pseudo-header words (upper-layer length, next header)
\* and bytes 8 onward, checksum included, fully folded to 16 bits
VerifySum(p) == OcAdd(OcAdd(BeU16At(p, 4), ByteAt(p, 6)), OcSum(From(p, 8)))

\* C7: checksum round-trip: zeroing the checksum field (offset 42 for
\* ICMPv6, 46 for UDP), computing icmpv6_udp_checksum and writing it back
\* yields a packet whose ones'-complement sum over the pseudo-header words
\* and bytes 8 onward, fully folded, is 0xFFFF.  Stated of the packets on
\* which modify has done exactly that (lines 170-173 and 235-238).
C7_ChecksumRoundTrip ==
    (Returned /\ IsSome(m_result)) => VerifySum(Unwrap(m_result)) = 65535

----------------------------------------------------------------------------
(* C8 *)

\* An RA option list that ends inside an option header or inside the body
\* of a kept (type # 25) option, after complete options of non-zero length
RECURSIVE RaListTruncated(_)
RaListTruncated(b) ==
    \/ Len(b) = 1
    \/ /\ Len(b) >= 2
       /\ b[2] # 0
       /\ \/ b[1] # 25 /\ 8 * b[2] > Len(b)
          \/ 8 * b[2] <= Len(b) /\ RaListTruncated(From(b, 8 * b[2]))

\* A DHCPv6 option list that ends inside an option header or inside the
\* body of a kept (type # 0x0017) option, after complete options
RECURSIVE DhcpListTruncated(_)
DhcpListTruncated(b) ==
    \/ Len(b) \in 1..3
    \/ /\ Len(b) >= 4
       /\ \/ NotDns(b) /\ 4 + BeU16At(b, 2) > Len(b)
          \/ 4 + BeU16At(b, 2) <= Len(b) /\ DhcpListTruncated(From(b, 4 + BeU16At(b, 2)))

WrongNextHeader(p) == Len(p) >= 7 /\ ByteAt(p, 6) \notin {58, 17}

WrongIcmpType(p) == Len(p) >= 41 /\ ByteAt(p, 6) = 58 /\ ByteAt(p, 40) # 134

WrongDhcpType(p) == Len(p) >= 49 /\ ByteAt(p, 6) = 17 /\ ByteAt(p, 48) # 7

TruncatedHeader(p) ==
    \/ Len(p) < 7
    \/ ByteAt(p, 6) = 58 /\ Len(p) < 46
    \/ ByteAt(p, 6) = 17 /\ Len(p) < 52

TruncatedOptions(p) ==
    \/ Len(p) >= 56 /\ ByteAt(p, 6) = 58 /\ ByteAt(p, 40) = 134 /\ RaListTruncated(From(p, 56))
    \/ Len(p) >= 52 /\ ByteAt(p, 6) = 17 /\ ByteAt(p, 48) = 7 /\ DhcpListTruncated(From(p, 52))

Inapplicable(p) ==
    \/ WrongNextHeader(p)
    \/ WrongIcmpType(p)
    \/ WrongDhcpType(p)
    \/ TruncatedHeader(p)
    \/ TruncatedOptions(p)

\* C8: on every input with a next header other than 58 and 17, with next
\* header 58 and byte 40 other than 134, with next header 17 and byte 48
\* other than 7, or truncated before a required field (shorter than 7
\* bytes, than 46 bytes for an RA, than 52 bytes for a DHCPv6 Reply, or
\* ending inside an option header or a kept option's body), modify never
\* sits in an option walk that does not advance, and what it returns is
\* None.
C8_Inapplicable ==
    Inapplicable(source) =>
        /\ ~StuckInRaWalk
        /\ Returned => m_result = None

\* modify has returned None on an RA cut inside a kept option's body that
\* follows a complete option, and on nothing shorter
C8_Witness ==
    /\ Returned
    /\ source = Prefix(RaHeader \o RaOptSlla \o RaOptMtu, 56 + 8 + 5)
    /\ TruncatedOptions(source)
    /\ m_result = None

----------------------------------------------------------------------------
(* C9 *)

\* C9: modify terminates on every input, returning None or a packet: the
\* RA and DHCPv6 option walks finish whatever lengths the options declare.
\* modify is deterministic and is straight-line code outside its two
\* walks, so it terminates exactly when no iteration of a walk leaves the
\* state as it found it: in every state inside a walk, the iteration
\* changes the state (it advances, leaves the walk, or returns).
C9_ModifyTerminates ==
    m_pc \in {"ra_loop", "dhcp_loop"} => ENABLED <<RaLoopStep \/ DhcpLoopStep>>_vars

----------------------------------------------------------------------------
(* Statements about the queue loop *)

\* The queue loop is in one of the two dropping loops (lines 321-328, 368-376)
DroppingSites == {"recv_initial", "recv_drop"}

Verdict == Unwrap(k_verdict)

\* A step of the queue: when recv() returns a packet, the packet it
\* returned before has had one verdict, and no packet has two
OneVerdictStep ==
    /\ QRecv /\ IsSome(k_recv) => k_count = 1
    /\ k_count' <= 1

\* C1: each packet recv() returned has exactly one verdict issued for it
\* before the next recv(): none is left without a verdict and none gets two.
C1_ExactlyOneVerdict == [][OneVerdictStep]_vars

HeldPacketStep ==
    k_site \in DroppingSites =>
        /\ q_pc \in {"take_initial", "take_drop"} /\ TookAddress(ip_rxtx) /\ q_pc' \notin {q_pc, "off"} =>
              /\ q_pc' = "modify"
              /\ ip' = Unwrap(ip_rxtx)
              /\ nf_queue_msg' = nf_queue_msg
              /\ Unwrap(nf_queue_msg).payload = Unwrap(k_recv)
              /\ k_count = 0
        /\ q_pc = "modify" /\ q_pc' = "verdict_rewrite" =>
              /\ source' = Unwrap(k_recv)
              /\ ip_arg' = Unwrap(consumed)
              /\ k_count = 0
        /\ q_pc = "verdict_rewrite" /\ k_count' # k_count =>
              /\ k_count' = 1
              /\ IF IsSome(m_result)
                 THEN Unwrap(k_verdict').verdict = "Repeat" /\ Unwrap(k_verdict').payload = Unwrap(m_result)
                 ELSE Unwrap(k_verdict').verdict = "Drop"

\* C3: when a dropping loop takes a present address from ip_rxtx, the
\* packet it holds, the one just received, is kept and is the one passed
\* to modify with that address; the verdict it then gets is Repeat with
\* the packet modify returned, or Drop if modify returned None.
C3_HeldPacketRewritten == [][HeldPacketStep]_vars

\* The packet held when the drop-again loop took an address was a Router
\* Advertisement and has got Repeat
C3_Witness ==
    /\ k_site = "recv_drop"
    /\ q_pc = "recv_rewrite"
    /\ IsSome(k_verdict)
    /\ Verdict.verdict = "Repeat"
    /\ WellFormedRa(Unwrap(k_recv))

\* A verdict is issued: how it relates to what modify returned
VerdictStep ==
    k_count' # k_count /\ IsSome(k_verdict') =>
        IF Unwrap(k_verdict').verdict = "Repeat"
        THEN /\ IsSome(m_result)
             /\ Unwrap(k_verdict').payload = Unwrap(m_result)
             /\ Unwrap(k_verdict').payload # Unwrap(k_recv)
             /\ Unwrap(k_verdict').mark = nf_mark
        ELSE /\ Unwrap(k_verdict').verdict = "Drop"
             /\ Unwrap(k_verdict').payload = Unwrap(k_recv)
             /\ Unwrap(k_verdict').mark = KernelMark

\* C10: a verdict Repeat is issued with the payload modify returned and the
\* mark nf_mark; a verdict Drop with the payload and the mark as received.
C10_RepeatMarked == [][VerdictStep]_vars

\* A DHCPv6 Reply has got Repeat, rewritten and marked
C10_Witness ==
    /\ IsSome(k_verdict)
    /\ Verdict.verdict = "Repeat"
    /\ Verdict.mark = CfgNfMark
    /\ WellFormedDhcp(Unwrap(k_recv))
    /\ Verdict.payload # Unwrap(k_recv)

----------------------------------------------------------------------------
(* Statements about the shared slot and its mutex *)

TakeSites == {"take_initial", "take_rewrite", "take_drop"}

RecvSites == {"recv_initial", "recv_rewrite", "recv_drop"}

VerdictSites == {"verdict_initial", "verdict_rewrite", "verdict_drop"}

\* A step of the program seen from the slot: the take comes after the
\* receive and once per packet, it observes what the tracker published
\* since the take before, and it leaves the slot empty
TakeOnReadStep ==
    /\ q_pc \in TakeSites => takes = 0 /\ IsSome(nf_queue_msg) /\ k_count = 0
    /\ q_pc \in VerdictSites \cup {"modify"} => takes = 1
    /\ q_pc \in RecvSites /\ IsSome(k_recv) => takes = 1
    /\ takes' <= 1
    /\ proc = "running" => (fresh <=> IsSome(ip_rxtx))
    /\ takes' = takes + 1 =>
          /\ fresh => IsSome(ip_rxtx) /\ consumed' = Unwrap(ip_rxtx)
          /\ ~fresh => consumed' = consumed /\ ip' = ip
          /\ ip_rxtx' = None
          /\ ~fresh'

\* C11: the queue loop takes the shared slot exactly once per received
\* packet, after the receive returns; a value published since the take
\* before is observed by that take, and the take leaves the slot empty, so
\* no later packet observes the value unless the tracker publishes again.
C11_TakeOnRead == [][TakeOnReadStep]_vars

\* A packet received in the rewrite loop has observed, with its one take,
\* an address published over an unconsumed one, and the slot is empty
C11_Witness ==
    /\ k_site = "recv_rewrite"
    /\ q_pc = "modify"
    /\ takes = 1
    /\ ip_rxtx = None
    /\ IsSome(replaced)
    /\ IsSome(consumed)
    /\ ip = consumed

\* C12: the queue loop does not hold the mutex while it is in recv(), calls
\* modify or issues a verdict, and the tracker does not hold it while it
\* lists the interfaces or sleeps: a thread holds it from lock() to the
\* end of its one read-or-write of the slot.
C12_LockNotHeldAcrossBlocking ==
    /\ mutex = "queue" => q_pc \in TakeSites
    /\ mutex = "tracker" => t_pc = "publish"
    /\ mutex \in {"free", "queue", "tracker"}

\* The tracker is at its publish, waiting for the mutex the queue loop
\* holds for its take
C12_Witness ==
    /\ mutex = "queue"
    /\ q_pc = "take_rewrite"
    /\ t_pc = "publish"

----------------------------------------------------------------------------
(* Statements about failures *)

\* A step of the program seen from the queue: a failed recv() or verdict()
\* ends the process as fatal with nothing more told to the queue, and an
\* ended process takes no step
FatalStep ==
    /\ QRecvFails \/ QVerdictFails =>
          /\ proc' = "fatal"
          /\ q_pc' = "off"
          /\ t_pc' = "off"
          /\ UNCHANGED kvars
    /\ proc = "fatal" => UNCHANGED <<proc, q_pc, t_pc, kvars, ip_rxtx>>

\* C13: an error from the queue's recv or verdict, in either state, ends
\* the queue loop at once with a fatal error: the operation is not retried
\* and no recv or verdict follows.
C13_QueueErrorFatal == [][FatalStep]_vars

\* The process has ended as fatal on a queue error in the rewrite loop,
\* after the verdict of the packet received there
C13_Witness ==
    /\ proc = "fatal"
    /\ q_pc = "off"
    /\ k_site = "recv_rewrite"
    /\ k_count = 1

----------------------------------------------------------------------------
(* Statements about the checksum arithmetic *)

\* The offset of the checksum field modify recomputes for this source
ChecksumOffset(p) == IF ByteAt(p, 6) = 58 THEN 42 ELSE 46

\* C14: for every accumulator icmpv6_udp_checksum produces, the one
\* addition of its high and low halves in checksum_finish does not carry
\* out of 16 bits, and checksum_finish returns the ones'-complement of the
\* fully folded sum, in network order.  Stated of the accumulators modify
\* hands to checksum_finish (lines 172 and 237).
C14_SingleFoldSuffices ==
    (Returned /\ IsSome(m_result)) =>
        LET z == ZeroedAt(Unwrap(m_result), ChecksumOffset(source))
            acc == Accumulator(z, ne_little)
        IN  /\ acc[1] + acc[2] < U16
            /\ checksum_finish(acc, ne_little) = U16BeBytes(65535 - VerifySum(z))

----------------------------------------------------------------------------
(* Statements about the address the rewritten packets carry *)

IsRdnss(opt) == ~NotRdnss(opt)

IsDns(opt) == ~NotDns(opt)

\* The 16-byte addresses an option carries after its first skip bytes
OptionAddresses(opt, skip) ==
    { SubSeq(opt, skip + 16 * (i - 1) + 1, skip + 16 * i) : i \in 1..((Len(opt) - skip) \div 16) }

\* The addresses the DNS-delivery options of packet p carry
DnsAddresses(p) ==
    IF ByteAt(p, 6) = 58
    THEN UNION { OptionAddresses(RaList(From(p, 56))[i], 8) :
                 i \in { j \in 1..Len(RaList(From(p, 56))) : IsRdnss(RaList(From(p, 56))[j]) } }
    ELSE UNION { OptionAddresses(DhcpList(From(p, 52))[i], 4) :
                 i \in { j \in 1..Len(DhcpList(From(p, 52))) : IsDns(DhcpList(From(p, 52))[j]) } }

\* The DNS-delivery options of packet p, in order
DnsOptions(p) ==
    IF ByteAt(p, 6) = 58
    THEN SelectSeq(RaList(From(p, 56)), IsRdnss)
    ELSE SelectSeq(DhcpList(From(p, 52)), IsDns)

\* The other options of packet p, in order
OtherOptions(p) ==
    IF ByteAt(p, 6) = 58
    THEN SelectSeq(RaList(From(p, 56)), NotRdnss)
    ELSE SelectSeq(DhcpList(From(p, 52)), NotDns)

\* The DNS-delivery option for address a, as the packet's protocol has it
DeliveryOption(p, a) ==
    IF ByteAt(p, 6) = 58
    THEN <<25, 3, 0, 0>> \o LifetimeBytes(rdnss_lifetime) \o a
    ELSE <<0, 23, 0, 16>> \o a

\* The payload given Repeat has one DNS-delivery option, the one for the
\* address last consumed, and the options of the original that are not
\* DNS-delivery options
RepeatCarriesConsumed ==
    IsSome(k_verdict) /\ Verdict.verdict = "Repeat" =>
        /\ IsSome(consumed)
        /\ DnsOptions(Verdict.payload) = <<DeliveryOption(Verdict.payload, Unwrap(consumed))>>
        /\ OtherOptions(Verdict.payload) = OtherOptions(Unwrap(k_recv))
        /\ DnsAddresses(Verdict.payload) = {Unwrap(consumed)}

\* C15 (as amended): every payload given Repeat embeds, as its single
\* DNS-delivery option, the address of the last update the queue loop
\* consumed, which is a present address; no RDNSS or DNS-server option of
\* the original packet is retained.
C15_RepeatCarriesConsumed == RepeatCarriesConsumed

\* A Router Advertisement with an RDNSS option of its own has got Repeat
\* with the address taken in the rewrite loop
C15_Witness ==
    /\ IsSome(k_verdict)
    /\ Verdict.verdict = "Repeat"
    /\ k_site = "recv_rewrite"
    /\ Unwrap(k_recv) = RaHeader \o RaOptSlla \o RaOptOldRdnss
    /\ consumed = Some(Ip2)
    /\ DnsAddresses(Verdict.payload) = {Ip2}

\* C15 (as stated): the same, and no address carried by an RDNSS or
\* DNS-server option of the original packet appears in a DNS-delivery
\* option of the packet given Repeat.
C15_NoOriginalAddress ==
    /\ RepeatCarriesConsumed
    /\ IsSome(k_verdict) /\ Verdict.verdict = "Repeat" =>
          DnsAddresses(Verdict.payload) \cap DnsAddresses(Unwrap(k_recv)) = {}

----------------------------------------------------------------------------
(* Statements about address changes *)

\* A step of the queue loop seen from the address in use: a present
\* address taken in the rewrite loop keeps the loop rewriting, with the
\* packet it holds, and is the address passed to modify from then on
AddressChangeStep ==
    /\ q_pc = "take_rewrite" /\ takes' = takes + 1 /\ TookAddress(ip_rxtx) =>
          /\ q_pc' = "modify"
          /\ ip' = Unwrap(ip_rxtx)
          /\ nf_queue_msg' = nf_queue_msg
    /\ q_pc = "take_rewrite" /\ takes' = takes + 1 /\ ~IsSome(ip_rxtx) =>
          /\ q_pc' = "modify"
          /\ ip' = ip
    /\ q_pc \in {"modify", "verdict_rewrite"} => IsSome(consumed) /\ ip = consumed
    /\ q_pc = "verdict_rewrite" => ip_arg = Unwrap(consumed)

\* C16: when the rewrite loop consumes an update with a present address
\* other than the one in use, it stays rewriting and uses the new address
\* for the packet it holds and for every rewrite until another update is
\* consumed; the old address is not used again.
C16_NewAddressUsed == [][AddressChangeStep]_vars

\* modify has returned a packet for the packet whose take, in the rewrite
\* loop, replaced the address in use by another
C16_Witness ==
    /\ q_pc = "verdict_rewrite"
    /\ m_pc = "done"
    /\ IsSome(m_result)
    /\ k_site = "recv_rewrite"
    /\ takes = 1
    /\ IsSome(ip_before)
    /\ ip_before # ip
    /\ ip_arg = Unwrap(ip)
    /\ DnsAddresses(Unwrap(m_result)) = {Unwrap(ip)}

----------------------------------------------------------------------------
(* Statements about the tracker's publishes *)

\* The tracker's step at line 309
PublishStep == t_pc = "publish" /\ t_pc' = "sleep"

\* A step of the program seen from the slot: a publish stores the poll's
\* result over whatever is pending, nothing else stores a value, and a
\* take observes what the slot holds; a present address that replaced an
\* unconsumed address-absent keeps the rewrite loop rewriting
OverwriteStep ==
    /\ PublishStep => ip_rxtx' = Some(found) /\ replaced' = ip_rxtx
    /\ ip_rxtx' # ip_rxtx => PublishStep \/ ip_rxtx' = None
    /\ takes' = takes + 1 /\ IsSome(ip_rxtx) => consumed' = Unwrap(ip_rxtx)
    /\ q_pc = "take_rewrite" /\ takes' = takes + 1 /\ TookAddress(ip_rxtx) /\ replaced = Some(None) =>
          /\ q_pc' = "modify"
          /\ IsSome(consumed')
          /\ ip' = consumed'

\* C17: the tracker stores its result into the slot on every poll, over
\* whatever is pending, so the queue loop observes only the latest
\* published value: address-absent published and then replaced by a
\* present address before any take is never observed, and the rewrite
\* loop goes on rewriting.
C17_LatestValueOnly == [][OverwriteStep]_vars

\* The rewrite loop has taken a present address that had replaced an
\* address-absent no take had observed, and goes on to modify
C17_Witness ==
    /\ q_pc = "modify"
    /\ k_site = "recv_rewrite"
    /\ takes = 1
    /\ ~fresh
    /\ replaced = Some(None)
    /\ IsSome(consumed)
    /\ IsSome(ip_before)

----------------------------------------------------------------------------
(* Statements about the tracker's polls *)

\* The tracker's step at lines 310-314
SleepStep == t_pc = "sleep" /\ t_pc' = "poll"

\* A step of the tracker seen from its sleeps: 5 seconds while no poll has
\* found a global address on the interface, the recheck period from the
\* first poll that has
SleepDurationStep ==
    /\ proc = "running" => (found_first <=> ever_global)
    /\ SleepStep /\ ~ever_global => t_sleep' = <<0, 0, 0, 5>>
    /\ SleepStep /\ ever_global => t_sleep' = recheck_period
    /\ recheck_period \in {RecheckPeriodOf(arg) : arg \in CfgRecheckPeriods}
    /\ RecheckPeriodOf(None) = <<0, 0, 0, 60>>

\* C18: the tracker sleeps 5 seconds after every poll before the first
\* poll that finds a global IPv6 address on the interface, and the
\* recheck period (60 seconds unless configured) after that poll and
\* after every later poll, those that find no global address included.
C18_SleepDurations == [][SleepDurationStep]_vars

\* The tracker has slept the configured recheck period after a poll that
\* found no global address, an earlier poll having found one
C18_Witness ==
    /\ t_pc = "poll"
    /\ ever_global
    /\ found = None
    /\ recheck_period = <<0, 1, 0, 30>>
    /\ t_sleep = recheck_period

\* A step of the tracker seen from its loop: whatever the poll gave,
\* the listing failing included, the process runs on and the tracker
\* publishes, sleeps and polls again
PollOutcomeStep ==
    /\ TrackerPollFails => proc' = "running"
    /\ t_pc = "poll" /\ proc' = "running" /\ t_pc' # t_pc => t_pc' = "publish"
    /\ t_pc = "publish" /\ proc' = "running" /\ t_pc' # t_pc => t_pc' = "sleep" /\ ip_rxtx' = Some(found)
    /\ t_pc = "sleep" /\ proc' = "running" /\ t_pc' # t_pc => t_pc' = "poll"

\* C19: whatever the outcome of a poll (a global address, the interface
\* absent, no global address on it, or the listing itself failing), the
\* tracker publishes a result, sleeps and polls again: a poll failure is
\* not fatal.
C19_PollFailureNotFatal == [][PollOutcomeStep]_vars

\* A step of the program seen from its exit: a panic in the tracker or in
\* modify ends the process with nothing more told to the queue or stored
\* in the slot, and an ended process takes no step
PanicStep ==
    /\ TrackerPollFails \/ ModifyPanics =>
          /\ proc' = "panic"
          /\ q_pc' = "off"
          /\ t_pc' = "off"
          /\ ip_rxtx' = None
          /\ UNCHANGED kvars
    /\ proc = "panic" => UNCHANGED <<proc, q_pc, t_pc, kvars, ip_rxtx>>

\* C20: a panic in either thread, inside modify or the checksum functions
\* included, ends the whole process (exit status 1): no recv, verdict or
\* publish follows.
C20_PanicEndsProcess == [][PanicStep]_vars

\* The process has ended by a panic while the queue loop held, after its
\* take, the Router Advertisement whose checksum fold overflows, in a
\* little-endian build with overflow checks
C20_Witness ==
    /\ proc = "panic"
    /\ q_pc = "off"
    /\ t_pc = "off"
    /\ ne_little
    /\ overflow_checks
    /\ k_recv = Some(RaHeader \o RaOptMtuCarry)
    /\ k_count = 0
    /\ takes = 1
    /\ IsSome(consumed)

----------------------------------------------------------------------------
(* C21 *)

\* The byte offsets modify leaves alone ahead of the options
RaUntouched == (0 .. 3) \cup (6 .. 41) \cup {44} \cup (46 .. 55)

DhcpUntouched == (0 .. 3) \cup (6 .. 43) \cup (48 .. 51)

\* The byte b with the bit of weight w set
WithBit(b, w) == IF (b \div w) % 2 = 1 THEN b ELSE b + w

\* r passes the bytes of s through: outside the length, checksum and flag
\* fields the header is that of s, and the options ahead of the generated
\* one are the kept options of s, byte for byte
RaPassThrough(s, r) ==
    /\ Len(r) >= RA_OPTIONS_START + 24
    /\ \A i \in RaUntouched : ByteAt(r, i) = ByteAt(s, i)
    /\ ByteAt(r, 45) = WithBit(ByteAt(s, 45), 64)
    /\ SubSeq(r, RA_OPTIONS_START + 1, Len(r) - 24) =
           Flatten(SelectSeq(RaList(From(s, RA_OPTIONS_START)), NotRdnss))

DhcpPassThrough(s, r) ==
    /\ Len(r) >= DHCP_OPTIONS_START + 20
    /\ \A i \in DhcpUntouched : ByteAt(r, i) = ByteAt(s, i)
    /\ SubSeq(r, DHCP_OPTIONS_START + 1, Len(r) - 20) =
           Flatten(SelectSeq(DhcpList(From(s, DHCP_OPTIONS_START)), NotDns))

\* A step of modify seen from its caller: the borrowed input is the same
\* after the step, and a returned packet passes the input's bytes through
PassThroughStep ==
    /\ m_pc \notin {"idle", "done"} /\ proc' = "running" => source' = source
    /\ m_pc # "done" /\ m_pc' = "done" /\ IsSome(m_result') =>
          IF ByteAt(source, 6) = NEXT_HEADER_ICMPV6
          THEN RaPassThrough(source, Unwrap(m_result'))
          ELSE DhcpPassThrough(source, Unwrap(m_result'))

\* C21: for every input on which modify returns a packet, the bytes outside
\* the touched fields are the input's: in the RA branch bytes 0-3, 6-41, 44
\* and 46-55 are unchanged and byte 45 is the input's with bit 0x40 set; in
\* the DHCPv6 branch bytes 0-3, 6-43 and 48-51 are unchanged; every kept
\* option is copied byte for byte; the input buffer is never modified.
C21_PassThrough == [][PassThroughStep]_vars

\* modify has returned on a Router Advertisement whose flags byte had the
\* "managed" flag alone and which carries a kept option: the result has
\* both flags and the kept option ahead of the generated one
C21_Witness ==
    /\ Returned
    /\ source = SetByte(RaHeader \o RaOptSlla, 45, 128)
    /\ IsSome(m_result)
    /\ ByteAt(Unwrap(m_result), 45) = 192
    /\ SubSeq(Unwrap(m_result), 57, 64) = RaOptSlla
    /\ Len(Unwrap(m_result)) = 88

----------------------------------------------------------------------------
(* C22 *)

\* C22: icmpv6_udp_checksum returns None (inapplicable) for every input
\* shorter than the 40-byte IPv6 header and returns a checksum for every
\* input at least that long.
C22_ShortInputInapplicable ==
    m_pc = "checksum_done" => (IsSome(m_result) <=> Len(source) >= IPV6_PAYLOAD_START)

----------------------------------------------------------------------------
(* C23 *)

\* The lifetime field of the RDNSS option that ends the Router
\* Advertisement p, as a number of seconds in 64 bits
WrittenLifetime(p) == <<0, 0, BeU16At(p, Len(p) - 20), BeU16At(p, Len(p) - 18)>>

\* C23: the lifetime written into the RDNSS option of every rewritten
\* Router Advertisement equals the recheck period in seconds (60 when none
\* is configured), the value the tracker sleeps in its steady state, for
\* every 64-bit recheck period the configuration accepts.
C23_LifetimeIsRecheckPeriod ==
    (IsSome(k_verdict) /\ Verdict.verdict = "Repeat" /\ ByteAt(Verdict.payload, 6) = NEXT_HEADER_ICMPV6) =>
        WrittenLifetime(Verdict.payload) = recheck_period

----------------------------------------------------------------------------
(* C24 *)

IsWanted(entry) == entry.name = WantIface

IsGlobalV6(addr) == addr.v6 /\ addr.global

\* The addresses of the entries, in listing order
RECURSIVE AllAddrs(_)
AllAddrs(entries) == IF entries = <<>> THEN <<>> ELSE Head(entries).addr \o AllAddrs(Tail(entries))

\* The global IPv6 addresses of the entries named like the interface
Candidates(listing) == SelectSeq(AllAddrs(SelectSeq(listing, IsWanted)), IsGlobalV6)

\* What a poll with this listing is to publish
Selected(listing) ==
    IF Candidates(listing) = <<>> THEN None
    ELSE Some(Candidates(listing)[Len(Candidates(listing))].octets)

\* A step of the program seen from the slot: the tracker stores what its
\* listing selects, nothing else stores a pending value, and a take of the
\* queue loop leaves the slot empty
SlotWriteStep ==
    /\ PublishStep => IsSome(listed) /\ ip_rxtx' = Some(Selected(Unwrap(listed)))
    /\ IsSome(ip_rxtx') /\ ip_rxtx' # ip_rxtx => PublishStep
    /\ q_pc \in TakeSites /\ q_pc' \notin {q_pc, "off"} => ip_rxtx' = None

\* C24: on each poll the tracker publishes address-absent exactly when no
\* entry named like the configured interface carries a global IPv6
\* address, and otherwise the last global IPv6 address in listing order
\* over all entries with that name (IPv4 and non-global IPv6 addresses are
\* skipped); only the tracker stores a pending value into the slot, the
\* queue loop only empties it.
C24_TrackerSelects == [][SlotWriteStep]_vars

\* The tracker has published the second global address of the interface,
\* which only the listing with a global address, an IPv4 address and
\* this address selects
C24_Witness ==
    /\ t_pc = "sleep"
    /\ found = Some(Ip2)
    /\ ip_rxtx = Some(Some(Ip2))
    /\ \A listing \in Listings :
          Selected(listing) = Some(Ip2) =>
              listing = <<Iface("eth0", <<Global(Ip1), V4Addr, Global(Ip2)>>)>>

=============================================================================
